---- MODULE Spec2Model ----
(***************************************************************************)
(* Model of neo4j.py: the idle-connection prober.                          *)
(*                                                                         *)
(*   main()           the schedule runner (lines 117-158)                  *)
(*   checkConnLife()  one probe: open, RETURN 1, sleep, RETURN 1, close    *)
(*                    (lines 79-115)                                       *)
(*   URI normalisation of main() (lines 135-142)                           *)
(*                                                                         *)
(* The Neo4j driver and the server are the environment: every driver call  *)
(* either succeeds, raises SessionExpired, or raises some other exception. *)
(***************************************************************************)
EXTENDS Integers, Sequences, FiniteSets, TLC

VARIABLES
    mainPc,            \* position of main()
    idx,               \* 1-based position of the for loop in idlesToCheck
    workingVal,        \* main(): longest idle time that worked
    probed,            \* durations passed to checkConnLife, in call order
    results,           \* connectSuccess of each probe that returned, in order
    validLog,          \* durations logged "The connection was valid after ..."
    failedLog,         \* durations logged "The connection FAILED after ..."
    report,            \* the final messages of main() (lines 156-157)
    driverOk,          \* does GraphDatabase.driver(NEO4J_URI, ...) accept the URI
    pc,                \* position of checkConnLife()
    connIdleTime,      \* checkConnLife(): the idle time under test
    idlePass,          \* checkConnLife(): the result flag
    driver,            \* checkConnLife(): the local 'driver': unbound/open/closed
    liveDrivers,       \* number of drivers constructed and not yet closed
    exc,               \* the exception in flight in checkConnLife, or "none"
    run1Ok,            \* the first  tx.run("RETURN 1 AS n") returned
    run2Ok,            \* the second tx.run("RETURN 1 AS n") returned
    sleepMinsLeft,     \* checkConnLife(): whole minutes still to sleep
    sleepSecondsLeft,  \* checkConnLife(): remainder sleep
    sleepLog,          \* arguments of the sleep() calls of this probe, in order
    errorLogged,       \* "Different Error encountered. Exiting" was logged
    NEO4J_URI_in,      \* main(): the URI as entered
    NEO4J_URI,         \* main(): the normalised URI
    firstUri,          \* the normalised URI of the first entry
    host,              \* the text first entered
    uriPc              \* position of the URI dialogue

mainVars == <<mainPc, idx, workingVal, probed, results, validLog, failedLog,
              report, driverOk>>
probeVars == <<pc, connIdleTime, idlePass, driver, liveDrivers, exc, run1Ok,
               run2Ok, sleepMinsLeft, sleepSecondsLeft, sleepLog, errorLogged>>
uriVars == <<NEO4J_URI_in, NEO4J_URI, firstUri, host, uriPc>>
vars == <<mainVars, probeVars, uriVars>>

(***************************************************************************)
(* Program constants.                                                      *)
(***************************************************************************)
\* line 119
idlesToCheck == <<30, 60, 90, 120, 180, 240, 300, 600, 900, 1200, 1800, 2400,
                  2700, 3010>>
\* line 87: idle times above this are slept in one-minute chunks
ChunkThreshold == 120
\* lines 88, 89, 92: one chunk
Minute == 60
\* line 156: the safety margin of the recommendation
Margin == 10
\* line 118
WorkingValInit == 0

(***************************************************************************)
(* Bounds of the model.                                                    *)
(***************************************************************************)
\* SpecProbe tries every idle time 0..MaxIdleTime
MaxIdleTime == 250

Max(a, b) == IF a >= b THEN a ELSE b

RECURSIVE Sum(_)
Sum(s) == IF s = <<>> THEN 0 ELSE Head(s) + Sum(Tail(s))

(***************************************************************************)
(* checkConnLife(NEO4J_URI, NEO4J_USER, NEO4J_PASS, connIdleTime)          *)
(***************************************************************************)
\* what a call into the driver can do
Outcomes == {"ok", "SessionExpired", "Other"}

IdlePassDefaultWrong == TRUE
\* line 80
IdlePassDefault == FALSE

\* line 88: int(connIdleTime/60), connIdleTime >= 0
SleepMins(t) == t \div Minute

SleepSecondsWrong(t) == 0
\* line 89: connIdleTime % 60
SleepSeconds(t) == t % Minute

DriverCloseLeak(d) == d
\* Driver.close() / Driver.__exit__: lines 82-83 (leaving the with) and 114.
\* Closing a closed driver is a no-op.
DriverClose(d) == IF d = "open" THEN "closed" ELSE d

\* the drivers that stay live when the local driver goes from d to e
LiveAfter(d, e) == IF d = "open" /\ e # "open" THEN liveDrivers - 1 ELSE liveDrivers

\* an exception leaves the with blocks of lines 82-85: tx, session and driver
\* are closed by their __exit__ and the exception reaches the except clauses
Raise(kind) ==
    /\ exc' = kind
    /\ driver' = DriverClose(driver)
    /\ liveDrivers' = LiveAfter(driver, driver')
    /\ pc' = "except"

\* line 82-83: neo4j.GraphDatabase.driver(...). Raises on a URI it cannot
\* parse; 'driver' is then never bound.
Construct ==
    /\ pc = "driver"
    /\ IF driverOk
         THEN /\ driver' = "open"
              /\ liveDrivers' = liveDrivers + 1
              /\ pc' = "session"
              /\ exc' = exc
         ELSE /\ exc' = "Other"
              /\ pc' = "except"
              /\ UNCHANGED <<driver, liveDrivers>>
    /\ UNCHANGED <<connIdleTime, idlePass, run1Ok, run2Ok, sleepMinsLeft,
                   sleepSecondsLeft, sleepLog, errorLogged>>
    /\ UNCHANGED <<mainVars, uriVars>>

\* lines 84-85: driver.session(...), session.begin_transaction()
BeginTransaction ==
    /\ pc = "session"
    /\ \E o \in Outcomes :
         IF o = "ok"
           THEN pc' = "run1" /\ UNCHANGED <<exc, driver, liveDrivers>>
           ELSE Raise(o)
    /\ UNCHANGED <<connIdleTime, idlePass, run1Ok, run2Ok, sleepMinsLeft,
                   sleepSecondsLeft, sleepLog, errorLogged>>
    /\ UNCHANGED <<mainVars, uriVars>>

\* line 86: the first tx.run("RETURN 1 AS n")
Run1 ==
    /\ pc = "run1"
    /\ \E o \in Outcomes :
         IF o = "ok"
           THEN /\ run1Ok' = TRUE
                /\ pc' = "branch"
                /\ UNCHANGED <<exc, driver, liveDrivers>>
           ELSE Raise(o) /\ run1Ok' = run1Ok
    /\ UNCHANGED <<connIdleTime, idlePass, run2Ok, sleepMinsLeft,
                   sleepSecondsLeft, sleepLog, errorLogged>>
    /\ UNCHANGED <<mainVars, uriVars>>

\* lines 87-90 and 97-98: choose between chunked and single sleep
SleepBranch ==
    /\ pc = "branch"
    /\ IF connIdleTime > ChunkThreshold
         THEN /\ sleepMinsLeft' = SleepMins(connIdleTime)
              /\ sleepSecondsLeft' = SleepSeconds(connIdleTime)
              /\ pc' = "sleepLoop"
         ELSE /\ pc' = "sleepOnce"
              /\ UNCHANGED <<sleepMinsLeft, sleepSecondsLeft>>
    /\ UNCHANGED <<connIdleTime, idlePass, driver, liveDrivers, exc, run1Ok,
                   run2Ok, sleepLog, errorLogged>>
    /\ UNCHANGED <<mainVars, uriVars>>

\* lines 91-95: one turn of the while loop
SleepMinute ==
    /\ pc = "sleepLoop"
    /\ sleepMinsLeft > 0
    /\ sleepLog' = Append(sleepLog, Minute)
    /\ sleepMinsLeft' = sleepMinsLeft - 1
    /\ UNCHANGED <<pc, connIdleTime, idlePass, driver, liveDrivers, exc, run1Ok,
                   run2Ok, sleepSecondsLeft, errorLogged>>
    /\ UNCHANGED <<mainVars, uriVars>>

\* lines 91 and 96: the while loop ends, sleep(sleepSecondsLeft)
SleepRest ==
    /\ pc = "sleepLoop"
    /\ ~(sleepMinsLeft > 0)
    /\ sleepLog' = Append(sleepLog, sleepSecondsLeft)
    /\ pc' = "awake"
    /\ UNCHANGED <<connIdleTime, idlePass, driver, liveDrivers, exc, run1Ok,
                   run2Ok, sleepMinsLeft, sleepSecondsLeft, errorLogged>>
    /\ UNCHANGED <<mainVars, uriVars>>

\* line 99: sleep(connIdleTime)
SleepOnce ==
    /\ pc = "sleepOnce"
    /\ sleepLog' = Append(sleepLog, connIdleTime)
    /\ pc' = "awake"
    /\ UNCHANGED <<connIdleTime, idlePass, driver, liveDrivers, exc, run1Ok,
                   run2Ok, sleepMinsLeft, sleepSecondsLeft, errorLogged>>
    /\ UNCHANGED <<mainVars, uriVars>>

\* lines 100-102: the second tx.run("RETURN 1 AS n"), then idlePass = True
Run2 ==
    /\ pc = "awake"
    /\ \E o \in Outcomes :
         IF o = "ok"
           THEN /\ run2Ok' = TRUE
                /\ idlePass' = TRUE
                /\ pc' = "leave"
                /\ UNCHANGED <<exc, driver, liveDrivers>>
           ELSE Raise(o) /\ UNCHANGED <<run2Ok, idlePass>>
    /\ UNCHANGED <<connIdleTime, run1Ok, sleepMinsLeft, sleepSecondsLeft,
                   sleepLog, errorLogged>>
    /\ UNCHANGED <<mainVars, uriVars>>

\* lines 82-85, leaving the with blocks normally: the transaction's __exit__
\* commits (a round trip that can fail), session and driver are closed
LeaveWith ==
    /\ pc = "leave"
    /\ \E o \in Outcomes :
         IF o = "ok"
           THEN /\ driver' = DriverClose(driver)
                /\ liveDrivers' = LiveAfter(driver, driver')
                /\ pc' = "finally"
                /\ exc' = exc
           ELSE Raise(o)
    /\ UNCHANGED <<connIdleTime, idlePass, run1Ok, run2Ok, sleepMinsLeft,
                   sleepSecondsLeft, sleepLog, errorLogged>>
    /\ UNCHANGED <<mainVars, uriVars>>

\* lines 104-106: except neo4j.exceptions.SessionExpired
ExceptSessionExpired ==
    /\ pc = "except"
    /\ exc = "SessionExpired"
    /\ idlePass' = FALSE
    /\ exc' = "none"
    /\ pc' = "finally"
    /\ UNCHANGED <<connIdleTime, driver, liveDrivers, run1Ok, run2Ok,
                   sleepMinsLeft, sleepSecondsLeft, sleepLog, errorLogged>>
    /\ UNCHANGED <<mainVars, uriVars>>

\* lines 110-112: except Exception: the error is logged; 'exit' is a bare
\* name, not a call, so nothing else happens
ExceptOther ==
    /\ pc = "except"
    /\ exc = "Other"
    /\ errorLogged' = TRUE
    /\ exc' = "none"
    /\ pc' = "finally"
    /\ UNCHANGED <<connIdleTime, idlePass, driver, liveDrivers, run1Ok, run2Ok,
                   sleepMinsLeft, sleepSecondsLeft, sleepLog>>
    /\ UNCHANGED <<mainVars, uriVars>>

\* lines 113-114: finally: driver.close(). With 'driver' unbound the name
\* lookup raises UnboundLocalError, which leaves checkConnLife.
Finally ==
    /\ pc = "finally"
    /\ IF driver = "unbound"
         THEN /\ exc' = "UnboundLocalError"
              /\ pc' = "raised"
              /\ UNCHANGED <<driver, liveDrivers>>
         ELSE /\ driver' = DriverClose(driver)
              /\ liveDrivers' = LiveAfter(driver, driver')
              /\ pc' = "return"
              /\ exc' = exc
    /\ UNCHANGED <<connIdleTime, idlePass, run1Ok, run2Ok, sleepMinsLeft,
                   sleepSecondsLeft, sleepLog, errorLogged>>
    /\ UNCHANGED <<mainVars, uriVars>>

\* line 115: return idlePass
Return ==
    /\ pc = "return"
    /\ pc' = "returned"
    /\ UNCHANGED <<connIdleTime, idlePass, driver, liveDrivers, exc, run1Ok,
                   run2Ok, sleepMinsLeft, sleepSecondsLeft, sleepLog, errorLogged>>
    /\ UNCHANGED <<mainVars, uriVars>>

NextProbe ==
    \/ Construct
    \/ BeginTransaction
    \/ Run1
    \/ SleepBranch
    \/ SleepMinute
    \/ SleepRest
    \/ SleepOnce
    \/ Run2
    \/ LeaveWith
    \/ ExceptSessionExpired
    \/ ExceptOther
    \/ Finally
    \/ Return

\* the locals of a fresh call of checkConnLife(…, t): lines 79-80
EnterProbe(t) ==
    /\ connIdleTime' = t
    /\ idlePass' = IdlePassDefault
    /\ driver' = "unbound"
    /\ exc' = "none"
    /\ run1Ok' = FALSE
    /\ run2Ok' = FALSE
    /\ sleepMinsLeft' = 0
    /\ sleepSecondsLeft' = 0
    /\ sleepLog' = <<>>
    /\ errorLogged' = FALSE
    /\ pc' = "driver"

(***************************************************************************)
(* main(): the schedule loop and the report                                *)
(***************************************************************************)
WorkingValMin(w, t) == IF w <= t THEN w ELSE t
\* line 151: max(workingVal, connIdleTime)
WorkingValNext(w, t) == Max(w, t)

RecommendedNoMargin(w) == w
\* line 156: workingVal-10
Recommended(w) == w - Margin

AfterFailureContinue == "loop"
\* line 154: break
AfterFailure == "report"

\* lines 146-148: the next duration of the schedule is probed
MainProbe ==
    /\ mainPc = "loop"
    /\ idx <= Len(idlesToCheck)
    /\ probed' = Append(probed, idlesToCheck[idx])
    /\ EnterProbe(idlesToCheck[idx])
    /\ mainPc' = "probe"
    /\ UNCHANGED <<idx, workingVal, results, validLog, failedLog, report,
                   driverOk, liveDrivers>>
    /\ UNCHANGED uriVars

\* lines 149-151, 155: the probe returned True
MainSuccess ==
    /\ mainPc = "probe"
    /\ pc = "returned"
    /\ idlePass
    /\ results' = Append(results, TRUE)
    /\ validLog' = Append(validLog, connIdleTime)
    /\ workingVal' = WorkingValNext(workingVal, connIdleTime)
    /\ idx' = idx + 1
    /\ mainPc' = "loop"
    /\ pc' = "idle"
    /\ UNCHANGED <<probed, failedLog, report, driverOk>>
    /\ UNCHANGED <<connIdleTime, idlePass, driver, liveDrivers, exc, run1Ok,
                   run2Ok, sleepMinsLeft, sleepSecondsLeft, sleepLog, errorLogged>>
    /\ UNCHANGED uriVars

\* lines 152-154: the probe returned False: log and break
MainFailure ==
    /\ mainPc = "probe"
    /\ pc = "returned"
    /\ ~idlePass
    /\ results' = Append(results, FALSE)
    /\ failedLog' = Append(failedLog, connIdleTime)
    /\ idx' = idx + 1
    /\ mainPc' = AfterFailure
    /\ pc' = "idle"
    /\ UNCHANGED <<workingVal, probed, validLog, report, driverOk>>
    /\ UNCHANGED <<connIdleTime, idlePass, driver, liveDrivers, exc, run1Ok,
                   run2Ok, sleepMinsLeft, sleepSecondsLeft, sleepLog, errorLogged>>
    /\ UNCHANGED uriVars

\* line 146: the schedule is exhausted
MainExhausted ==
    /\ mainPc = "loop"
    /\ idx > Len(idlesToCheck)
    /\ mainPc' = "report"
    /\ UNCHANGED <<idx, workingVal, probed, results, validLog, failedLog,
                   report, driverOk>>
    /\ UNCHANGED <<probeVars, uriVars>>

\* lines 156-158: the recommendation and the longest valid idle time. The
\* ordinary message is printed whatever workingVal is.
MainReport ==
    /\ mainPc = "report"
    /\ report' = [kind |-> "ordinary",
                  recommended |-> Recommended(workingVal),
                  longest |-> workingVal]
    /\ mainPc' = "done"
    /\ UNCHANGED <<idx, workingVal, probed, results, validLog, failedLog,
                   driverOk>>
    /\ UNCHANGED <<probeVars, uriVars>>

\* line 148: an exception that leaves checkConnLife is caught nowhere in
\* main(): the process ends with a traceback
MainUncaught ==
    /\ mainPc = "probe"
    /\ pc = "raised"
    /\ mainPc' = "crashed"
    /\ UNCHANGED <<idx, workingVal, probed, results, validLog, failedLog,
                   report, driverOk>>
    /\ UNCHANGED <<probeVars, uriVars>>

NoReport == [kind |-> "none", recommended |-> 0, longest |-> 0]

InitProbeIdle ==
    /\ pc = "idle"
    /\ connIdleTime = 0
    /\ idlePass = FALSE
    /\ driver = "unbound"
    /\ liveDrivers = 0
    /\ exc = "none"
    /\ run1Ok = FALSE
    /\ run2Ok = FALSE
    /\ sleepMinsLeft = 0
    /\ sleepSecondsLeft = 0
    /\ sleepLog = <<>>
    /\ errorLogged = FALSE

InitUriIdle ==
    /\ NEO4J_URI_in = <<>>
    /\ NEO4J_URI = <<>>
    /\ firstUri = <<>>
    /\ host = <<>>
    /\ uriPc = "idle"

InitMainIdle ==
    /\ idx = 1
    /\ workingVal = WorkingValInit
    /\ probed = <<>>
    /\ results = <<>>
    /\ validLog = <<>>
    /\ failedLog = <<>>
    /\ report = NoReport

\* main() at line 146, the URI entered; whether the driver accepts the
\* normalised URI is a property of the input
Init ==
    /\ mainPc = "loop"
    /\ driverOk \in BOOLEAN
    /\ InitMainIdle
    /\ InitProbeIdle
    /\ InitUriIdle

Next ==
    \/ MainProbe
    \/ MainSuccess
    \/ MainFailure
    \/ MainExhausted
    \/ MainReport
    \/ MainUncaught
    \/ NextProbe

Spec == Init /\ [][Next]_vars

\* checkConnLife called on its own with any idle time 0..MaxIdleTime
InitProbe ==
    /\ mainPc = "probe"
    /\ driverOk \in BOOLEAN
    /\ InitMainIdle
    /\ InitUriIdle
    /\ pc = "driver"
    /\ connIdleTime \in 0..MaxIdleTime
    /\ idlePass = IdlePassDefault
    /\ driver = "unbound"
    /\ liveDrivers = 0
    /\ exc = "none"
    /\ run1Ok = FALSE
    /\ run2Ok = FALSE
    /\ sleepMinsLeft = 0
    /\ sleepSecondsLeft = 0
    /\ sleepLog = <<>>
    /\ errorLogged = FALSE

SpecProbe == InitProbe /\ [][NextProbe]_vars

(***************************************************************************)
(* Properties of the schedule runner                                       *)
(***************************************************************************)
RECURSIVE LeadingTrue(_)
\* the number of leading TRUE entries of a sequence of booleans
LeadingTrue(s) == IF s = <<>> \/ ~Head(s) THEN 0 ELSE 1 + LeadingTrue(Tail(s))

MaxOf(S) == IF S = {} THEN 0 ELSE CHOOSE m \in S : \A x \in S : x <= m

\* the largest duration among the contiguous leading successful probes
LeadingBest == MaxOf({probed[i] : i \in 1..LeadingTrue(results)})

Range(s) == {s[i] : i \in 1..Len(s)}

\* C1: the durations passed to checkConnLife are a prefix of idlesToCheck in
\* schedule order, none twice; every probe but the last one made returned
\* True, so nothing is probed after a failed probe; and when main() is done
\* the prefix ends at the first probe that returned False, or is the whole
\* schedule.
C1_ProbedPrefix ==
    /\ Len(probed) <= Len(idlesToCheck)
    /\ \A i \in 1..Len(probed) : probed[i] = idlesToCheck[i]
    /\ \A i, j \in 1..Len(probed) : i # j => probed[i] # probed[j]
    /\ Len(results) <= Len(probed)
    /\ Len(probed) <= Len(results) + 1
    /\ \A i \in 1..Len(results) : i < Len(probed) => results[i]
    /\ mainPc \in {"report", "done"} =>
         /\ Len(results) = Len(probed)
         /\ \/ probed = idlesToCheck /\ \A i \in 1..Len(results) : results[i]
            \/ probed # <<>> /\ ~results[Len(results)]

\* C1 witness: 30 and 60 worked, 90 failed, and the run ended there
C1_Witness ==
    /\ mainPc = "done"
    /\ probed = <<30, 60, 90>>
    /\ results = <<TRUE, TRUE, FALSE>>

\* C2: workingVal is the largest duration among the contiguous leading
\* successful probes, 0 if the first probe failed, and never a duration whose
\* probe failed.
C2_WorkingValIsLeadingBest ==
    /\ workingVal = LeadingBest
    /\ workingVal \notin Range(failedLog)
    /\ (results # <<>> /\ ~results[1]) => workingVal = 0
    /\ workingVal # 0 => workingVal \in Range(validLog)

\* C2 witness: after two successes and a failure workingVal is 60
C2_Witness ==
    /\ mainPc = "report"
    /\ results = <<TRUE, TRUE, FALSE>>
    /\ workingVal = 60

\* C3: once the loop has ended main() reports the best successful duration
\* and a recommended value of best - 10.
C3_ReportIsBestMinusTen ==
    mainPc = "done" =>
        /\ report.kind # "none"
        /\ report.longest = LeadingBest
        /\ report.recommended = LeadingBest - 10

\* C3 witness: successes at 30 and 60, failure at 90: best 60, recommended 50
C3_Witness ==
    /\ mainPc = "done"
    /\ results = <<TRUE, TRUE, FALSE>>
    /\ report.longest = 60
    /\ report.recommended = 50

\* C4: when the very first probe failed the ordinary 'Recommended Connection
\* lifetime' message is not emitted.
C4_ZeroBestIsFlagged ==
    (mainPc = "done" /\ results # <<>> /\ ~results[1]) => report.kind # "ordinary"

(***************************************************************************)
(* Properties of the probe                                                 *)
(***************************************************************************)
\* the sleep() calls the documentation of the chunking policy asks for
ExpectedSleeps(t) ==
    IF t > 120 THEN [i \in 1..(t \div 60) |-> 60] \o <<t % 60>> ELSE <<t>>

\* the probe of connIdleTime ran both statements around the whole sleep
FullProbe ==
    /\ run1Ok
    /\ run2Ok
    /\ sleepLog = ExpectedSleeps(connIdleTime)
    /\ Sum(sleepLog) = connIdleTime

\* C5: checkConnLife returns True only after the first statement succeeded,
\* then the whole sleep completed, then the second statement succeeded; no
\* sleep happens unless the first statement succeeded, and main() logs a
\* duration as valid only for such a probe.
C5_TrueOnlyAfterFullProbe ==
    /\ sleepLog # <<>> => run1Ok
    /\ pc \in {"branch", "sleepLoop", "sleepOnce"} => run1Ok
    /\ run2Ok => run1Ok /\ sleepLog = ExpectedSleeps(connIdleTime)
    /\ idlePass => run2Ok
    /\ (pc = "returned" /\ idlePass) => FullProbe
    /\ (mainPc # "probe" /\ connIdleTime \in Range(validLog)) => FullProbe
    /\ \A i \in 1..Len(validLog) : i <= Len(results) /\ results[i]

\* C5 witness: the 180 second probe returned True
C5_Witness ==
    /\ pc = "returned"
    /\ idlePass
    /\ connIdleTime = 180
    /\ sleepLog = <<60, 60, 60, 0>>

\* C6: at most one driver is live at any time, and none is live when control
\* is outside the probe: before the driver is constructed, after the finally
\* clause, and after checkConnLife has returned or raised.
C6_DriverReleased ==
    /\ liveDrivers \in {0, 1}
    /\ liveDrivers = 1 <=> driver = "open"
    /\ pc \in {"idle", "driver", "return", "returned", "raised"} => liveDrivers = 0

\* C6 witness: the second probe returned through the 'except Exception'
\* path with its driver closed
C6_Witness ==
    /\ pc = "returned"
    /\ Len(probed) = 2
    /\ errorLogged
    /\ driver = "closed"

\* C7: between the two statements checkConnLife sleeps connIdleTime seconds
\* in total: floor(t/60) times 60 and once t mod 60 when t > 120, once t
\* otherwise.
C7_SleepTotal ==
    pc \in {"awake", "leave"} =>
        /\ Sum(sleepLog) = connIdleTime
        /\ sleepLog = ExpectedSleeps(connIdleTime)

\* C7 witness: 185 seconds are slept as 3 x 60 + 5
C7_Witness ==
    /\ pc = "awake"
    /\ connIdleTime = 185
    /\ sleepLog = <<60, 60, 60, 5>>

\* C9: a run of main() ends only after the final recommendation: a state
\* with no further step is the state after the report.
C9_EndsAfterReport ==
    \/ ENABLED Next
    \/ mainPc = "done" /\ report.kind # "none"

\* C10: once an exception other than session expiry has been handled,
\* checkConnLife does not raise and returns False.
C10_OtherErrorReturnsFalse ==
    errorLogged =>
        /\ pc # "raised"
        /\ pc \in {"return", "returned"} => ~idlePass

(***************************************************************************)
(* main(): the connection URI (lines 127-142). A string is the sequence of *)
(* its characters.                                                         *)
(***************************************************************************)
\* line 136: "neo4j+s://"
SchemeS == <<"n", "e", "o", "4", "j", "+", "s", ":", "/", "/">>
\* lines 136, 142: ":7687"
Port == <<":", "7", "6", "8", "7">>
\* lines 136, 142: "neo4j+ssc://"
SchemeSsc == <<"n", "e", "o", "4", "j", "+", "s", "s", "c", ":", "/", "/">>

\* str.lower() on the letters the inputs use
LowerChar(c) ==
    CASE c = "H" -> "h"
      [] c = "N" -> "n"
      [] c = "E" -> "e"
      [] c = "O" -> "o"
      [] c = "J" -> "j"
      [] c = "S" -> "s"
      [] OTHER -> c

\* line 135: str.lower()
Lower(s) == [i \in 1..Len(s) |-> LowerChar(s[i])]

RECURSIVE LStrip(_)
LStrip(s) == IF s # <<>> /\ Head(s) = " " THEN LStrip(Tail(s)) ELSE s

RECURSIVE RStrip(_)
RStrip(s) ==
    IF s # <<>> /\ s[Len(s)] = " " THEN RStrip(SubSeq(s, 1, Len(s) - 1)) ELSE s

\* line 135: str.strip()
Strip(s) == RStrip(LStrip(s))

RECURSIVE Remove(_, _)
\* line 136: s.replace(old, ''): the occurrences of old are found left to
\* right, without overlap, in one pass
Remove(s, old) ==
    IF Len(s) < Len(old) THEN s
    ELSE IF SubSeq(s, 1, Len(old)) = old
           THEN Remove(SubSeq(s, Len(old) + 1, Len(s)), old)
           ELSE <<Head(s)>> \o Remove(Tail(s), old)

CoreKeepsSsc(x) == Remove(Remove(Lower(Strip(x)), SchemeS), Port)
\* lines 135-136: the host part left of the entered text
Core(x) == Remove(Remove(Remove(Lower(Strip(x)), SchemeS), Port), SchemeSsc)

\* lines 135-142: the URI handed to the driver
Normalize(x) == SchemeSsc \o Core(x) \o Port

(***************************************************************************)
(* Bounds of the URI model: the text entered is a concatenation of at most *)
(* MaxChunks pieces.                                                       *)
(***************************************************************************)
MaxChunks == 3

Chunks == { <<"h">>, <<"H">>, <<" ">>, <<".">>,
            SchemeS, Port, SchemeSsc,
            <<":", "7", "6">>, <<"8", "7">>,
            <<"n", "e", "o", "4", "j", "+">>, <<"s", ":", "/", "/">> }

RECURSIVE Texts(_)
Texts(n) ==
    IF n = 0 THEN {<<>>}
    ELSE LET shorter == Texts(n - 1)
         IN  shorter \cup {t \o c : t \in shorter, c \in Chunks}

\* line 127: the text is entered
InitUri ==
    /\ mainPc = "input"
    /\ driverOk = TRUE
    /\ InitMainIdle
    /\ InitProbeIdle
    /\ NEO4J_URI_in \in Texts(MaxChunks)
    /\ host = NEO4J_URI_in
    /\ NEO4J_URI = <<>>
    /\ firstUri = <<>>
    /\ uriPc = "entered"

\* lines 135-142 on the first text entered
NormalizeUri ==
    /\ uriPc = "entered"
    /\ NEO4J_URI' = Normalize(NEO4J_URI_in)
    /\ firstUri' = Normalize(NEO4J_URI_in)
    /\ uriPc' = "normalized"
    /\ UNCHANGED <<NEO4J_URI_in, host>>
    /\ UNCHANGED <<mainVars, probeVars>>

\* line 127 again: the URI the script printed (line 144) is entered
EnterNormalized ==
    /\ uriPc = "normalized"
    /\ NEO4J_URI_in' = NEO4J_URI
    /\ uriPc' = "reentered"
    /\ UNCHANGED <<NEO4J_URI, firstUri, host>>
    /\ UNCHANGED <<mainVars, probeVars>>

\* line 127 again: the first text, without its surrounding whitespace, is
\* entered with the neo4j+s:// scheme and/or the :7687 port attached
EnterDecorated ==
    /\ uriPc = "normalized"
    /\ \E sch \in {<<>>, SchemeS}, prt \in {<<>>, Port} :
         /\ sch # <<>> \/ prt # <<>>
         /\ NEO4J_URI_in' = sch \o Strip(host) \o prt
    /\ uriPc' = "decorated"
    /\ UNCHANGED <<NEO4J_URI, firstUri, host>>
    /\ UNCHANGED <<mainVars, probeVars>>

\* lines 135-142 on the second text entered
NormalizeAgain ==
    /\ uriPc \in {"reentered", "decorated"}
    /\ NEO4J_URI' = Normalize(NEO4J_URI_in)
    /\ uriPc' = IF uriPc = "reentered" THEN "renormalized" ELSE "redecorated"
    /\ UNCHANGED <<NEO4J_URI_in, firstUri, host>>
    /\ UNCHANGED <<mainVars, probeVars>>

NextUri ==
    \/ NormalizeUri
    \/ EnterNormalized
    \/ EnterDecorated
    \/ NormalizeAgain

SpecUri == InitUri /\ [][NextUri]_vars

\* does text s contain the substring t
Contains(s, t) ==
    \E i \in 1..(Len(s) - Len(t) + 1) : SubSeq(s, i, i + Len(t) - 1) = t

\* s contains none of the substrings the normalisation removes
TokenFree(s) ==
    ~Contains(s, SchemeS) /\ ~Contains(s, Port) /\ ~Contains(s, SchemeSsc)

\* C8 as stated: whatever text was entered first, entering the normalised
\* URI, or the first text with scheme and/or port attached, gives the same
\* normalised URI.
C8_IdempotentForEveryText ==
    uriPc \in {"renormalized", "redecorated"} => NEO4J_URI = firstUri

\* C8 amended: entering the normalised URI gives the same normalised URI when
\* the host part of the first text (what the removals leave) contains none of
\* the removed substrings; entering the first text with scheme and/or port
\* attached gives the same normalised URI for every text.
C8_IdempotentForPlainHost ==
    /\ (uriPc = "renormalized" /\ TokenFree(Core(host))) => NEO4J_URI = firstUri
    /\ uriPc = "redecorated" => NEO4J_URI = firstUri

\* C8 witness: "H.h" entered first, the normalised URI entered again
C8_Witness ==
    /\ uriPc = "renormalized"
    /\ host = <<"H", ".", "h">>
    /\ NEO4J_URI_in = SchemeSsc \o <<"h", ".", "h">> \o Port
    /\ NEO4J_URI = SchemeSsc \o <<"h", ".", "h">> \o Port

====
